---- MODULE Spec2Model ----
(***************************************************************************)
(* Model of src/api/providers/tabbyml.ts: the Tabby provider adapter.      *)
(*                                                                         *)
(* The source holds two revisions of the provider.  The first (lines       *)
(* 1-232) is a hand-written TabbyHandler with lazy initialisation, a       *)
(* streaming createMessage with a completePrompt fallback, initTabbyConfig *)
(* and a getTabbyModels without error handling.  The second (lines         *)
(* 234-332) is a TabbyHandler that only normalises its options for         *)
(* OpenAiHandler, fetchLatestTabbyConfig and a guarded getTabbyModels.     *)
(*                                                                         *)
(* Strings are sequences of one-character strings, so that length,         *)
(* concatenation, splitting and trimming are computed as the code          *)
(* computes them.  A JavaScript turn (the code between two awaits or       *)
(* yields) is one atomic step; calls interleave at awaits and yields.      *)
(***************************************************************************)
EXTENDS Integers, Sequences, FiniteSets, TLC

VARIABLES endpoint, token, client, initialized, initPromise, initRuns,
          constructed, calls, budget, app

vars == <<endpoint, token, client, initialized, initPromise, initRuns,
          constructed, calls, budget, app>>

handlerVars == <<endpoint, token, client, initialized, initPromise, initRuns,
                 constructed, calls, budget>>

(***************************************************************************)
(* Bounds of the model.                                                    *)
(***************************************************************************)
\* Number of createMessage / completePrompt calls made on the handler.
NumCalls == 2
\* Number of stream chunks the service delivers, over all calls.
MaxDeltas == 2

Calls == 1..NumCalls

(***************************************************************************)
(* Strings.                                                                *)
(***************************************************************************)
RECURSIVE Concat(_)
\* Array.prototype.join(""): the concatenation of a sequence of strings.
Concat(ss) == IF ss = <<>> THEN <<>> ELSE Head(ss) \o Concat(Tail(ss))

RECURSIVE Join(_, _)
\* Array.prototype.join(sep).
Join(ss, sep) ==
    IF ss = <<>> THEN <<>>
    ELSE IF Len(ss) = 1 THEN Head(ss)
    ELSE Head(ss) \o sep \o Join(Tail(ss), sep)

\* String.prototype.endsWith(c) for a single character c.
EndsWith(s, c) == Len(s) > 0 /\ s[Len(s)] = c

\* s.slice(0, -1)
DropLast(s) == IF Len(s) = 0 THEN s ELSE SubSeq(s, 1, Len(s) - 1)

\* TRUE iff pat occurs in s.
Contains(s, pat) ==
    \E i \in 1..(Len(s) - Len(pat) + 1) : SubSeq(s, i, i + Len(pat) - 1) = pat

Whitespace == {" ", "\n"}

\* chunk.trim() is a non-empty (truthy) string.
TrimIsTruthy(chunk) == \E i \in 1..Len(chunk) : chunk[i] \notin Whitespace

\* The lookbehind (?<=\. |\n) matches at the position after character q.
LookbehindMatches(s, q) ==
    \/ s[q] = "\n"
    \/ (q >= 2 /\ s[q - 1] = "." /\ s[q] = " ")

RECURSIVE SplitFrom(_, _, _)
\* String.prototype.split with a zero-width separator: p is the start of the
\* current piece, q the position scanned; no cut at the end of the string.
SplitFrom(s, p, q) ==
    IF q >= Len(s) THEN <<SubSeq(s, p, Len(s))>>
    ELSE IF LookbehindMatches(s, q)
         THEN <<SubSeq(s, p, q)>> \o SplitFrom(s, q + 1, q + 1)
         ELSE SplitFrom(s, p, q + 1)

\* result.split(/(?<=\. |\n)/)
Split(s) == SplitFrom(s, 1, 1)

\* EstimateTokens rounding down.
EstimateTokensFloor(text) == Len(text) \div 4

\* Math.ceil(text.length / 4)
EstimateTokens(text) == (Len(text) + 3) \div 4

(***************************************************************************)
(* Inputs.                                                                 *)
(***************************************************************************)
SlashV1 == <<"/", "v", "1">>
Dummy == <<"d", "u", "m", "m", "y">>
RoleSystem == <<"s", "y", "s", "t", "e", "m">>
RoleUser == <<"u", "s", "e", "r">>
RoleAssistant == <<"a", "s", "s", "i", "s", "t", "a", "n", "t">>

\* The options the handler is constructed with: tabbyBaseUrl, tabbyApiKey.
Options ==
    { [tabbyBaseUrl |-> <<>>, tabbyApiKey |-> <<>>],
      [tabbyBaseUrl |-> <<"h">>, tabbyApiKey |-> <<"k">>],
      [tabbyBaseUrl |-> <<"h", "/">>, tabbyApiKey |-> <<>>] }

\* (systemPrompt, messages) arguments of createMessage.
Inputs ==
    { [sys |-> <<>>, msgs |-> <<>>],
      [sys |-> <<"s">>,
       msgs |-> << [role |-> RoleUser, content |-> <<"h", "i">>],
                   [role |-> RoleAssistant, content |-> <<"\n">>] >>] }

NoInput == [sys |-> <<>>, msgs |-> <<>>]

\* prompt arguments of completePrompt.
Prompts == { <<"p">> }

\* chunk.choices[0]?.delta?.content of one streamed chunk; the empty string
\* stands for a chunk without content.
Deltas == { <<>>, <<"\n">>, <<"a", ".", " ">> }

(***************************************************************************)
(* Handler state (first revision).                                         *)
(***************************************************************************)
NoClient == [id |-> 0, baseURL |-> <<>>, apiKey |-> <<>>]
NoPromise == [id |-> 0, state |-> "none"]

\* UsageChunk typed as a text chunk.
UsageChunkAsText(i, o) ==
    [type |-> "text", text |-> <<>>, inputTokens |-> i, outputTokens |-> o]

TextChunk(t) ==
    [type |-> "text", text |-> t, inputTokens |-> 0, outputTokens |-> 0]
UsageChunk(i, o) ==
    [type |-> "usage", text |-> <<>>, inputTokens |-> i, outputTokens |-> o]

IdleCall ==
    [kind |-> "none", phase |-> "none", pc |-> "idle",
     input |-> NoInput, prompt |-> <<>>,
     awaited |-> NoPromise, ensureErr |-> FALSE,
     reqs |-> <<>>, received |-> <<>>, fullText |-> <<>>,
     cpChunks |-> <<>>, result |-> <<>>, pending |-> <<>>,
     yielded |-> <<>>, error |-> "none",
     streamErr |-> FALSE, yieldedAtErr |-> 0, cpCalls |-> 0, cpStarted |-> 0]

\* convertToOpenAiMessages(messages), for messages with string content.
convertToOpenAiMessages(msgs) == msgs

\* [systemMessage, ...convertedMessages]
OpenAiMessages(x) ==
    << [role |-> RoleSystem, content |-> x.sys] >> \o convertToOpenAiMessages(x.msgs)

\* RenderPrompt with the lines joined by spaces.
RenderPromptSpaces(ms) ==
    Join([k \in 1..Len(ms) |-> ms[k].role \o <<":", " ">> \o ms[k].content],
         <<" ">>)

\* openAiMessages.map((m) => `${m.role}: ${m.content}`).join("\n")
RenderPrompt(ms) ==
    Join([k \in 1..Len(ms) |-> ms[k].role \o <<":", " ">> \o ms[k].content],
         <<"\n">>)

\* openAiMessages.map((m) => m.content).join(" ")
InputText(ms) == Join([k \in 1..Len(ms) |-> ms[k].content], <<" ">>)

\* YieldsText without the test on the content.
YieldsAlways(content) == TRUE

\* if (content) { ... yield ... }
YieldsText(content) == content # <<>>

\* The chunks the fallback yields: the pieces of the split whose trim is not
\* empty.
FallbackChunks(result) == SelectSeq(Split(result), TrimIsTruthy)

\* The usage chunk of the streaming path.
StreamUsage(ms, fullText) ==
    UsageChunk(EstimateTokens(InputText(ms)), EstimateTokens(fullText))

\* The usage chunk of the fallback path.
FallbackUsage(ms, result) ==
    UsageChunk(EstimateTokens(InputText(ms)), EstimateTokens(result))

\* InitializeThrows without the endpoint check.
InitializeNeverThrows(ep) == FALSE

\* if (!this.endpoint) throw new Error("Tabby endpoint is not configured")
InitializeThrows(ep) == ep = <<>>

\* new OpenAI({ baseURL: `${this.endpoint}/v1`, apiKey: this.token || "dummy" })
NewClient(ep, tok, id) ==
    [id |-> id, baseURL |-> ep \o SlashV1,
     apiKey |-> IF tok = <<>> THEN Dummy ELSE tok]

\* NeedsInitialize without the test on the stored promise.
NeedsInitializeAlways(p) == TRUE

\* if (!this.initPromise)
NeedsInitialize(p) == p = NoPromise

\* AfterRejected keeping the rejected promise.
AfterRejectedKept(p) == p

\* catch (error) { this.initPromise = null; throw error }
AfterRejected(p) == NoPromise

Init ==
    /\ \E o \in Options : endpoint = o.tabbyBaseUrl /\ token = o.tabbyApiKey
    /\ client = NoClient
    /\ initialized = FALSE
    /\ initPromise = NoPromise
    /\ initRuns = 0
    /\ constructed = 0
    /\ calls = [i \in Calls |-> IdleCall]
    /\ budget = MaxDeltas
    /\ app = [op |-> "none"]

\* ensureInitialized() up to its first await, run by call i whose record is c.
\* initialize() has no await: it runs to its end inside this step.
ensureInitialized(i, c) ==
    IF initialized
    THEN /\ calls' = [calls EXCEPT ![i] =
                        [c EXCEPT !.pc = "afterEnsure", !.ensureErr = FALSE,
                                  !.awaited = NoPromise]]
         /\ UNCHANGED <<client, initPromise, initRuns, constructed>>
    ELSE IF NeedsInitialize(initPromise)
    THEN LET throws == InitializeThrows(endpoint)
             p == [id |-> initRuns + 1,
                   state |-> IF throws THEN "rejected" ELSE "resolved"]
         IN /\ initRuns' = initRuns + 1
            /\ constructed' = IF throws THEN constructed ELSE constructed + 1
            /\ client' = IF throws THEN client
                         ELSE NewClient(endpoint, token, constructed + 1)
            /\ initPromise' = p
            /\ calls' = [calls EXCEPT ![i] =
                           [c EXCEPT !.pc = "awaitInit", !.awaited = p]]
    ELSE /\ calls' = [calls EXCEPT ![i] =
                        [c EXCEPT !.pc = "awaitInit", !.awaited = initPromise]]
         /\ UNCHANGED <<client, initPromise, initRuns, constructed>>

\* The caller takes the outcome of a finished call (Collect) before any other
\* step is taken.
NoOutcomePending == \A j \in Calls : calls[j].pc \notin {"done", "raised"}

\* initPromise is settled when it is awaited (initialize has no await), and so
\* is the promise of ensureInitialized: the continuations of these awaits are
\* microtasks, which run before the next event of the service is delivered.
NoMicrotaskPending ==
    \A j \in Calls : calls[j].pc \notin {"awaitInit", "afterEnsure"}

\* Call i is between sending its request and its last chunk: its steps there
\* read and write its own record only.
Streaming(c) == c.pc \in {"awaitCreate", "streaming", "yielding"}

\* Steps that touch only the call's own record commute with every step of
\* the other calls: they are taken for the lowest-numbered such call first.
MayStream(i) ==
    /\ NoOutcomePending
    /\ NoMicrotaskPending
    /\ \A j \in Calls : j < i => ~Streaming(calls[j])

CanStart(i) ==
    /\ NoOutcomePending
    /\ calls[i].pc = "idle"
    /\ (i > 1 => calls[i - 1].pc # "idle")

\* createMessage(systemPrompt, messages) up to the await of line 68.
createMessage(i, x) ==
    /\ CanStart(i)
    /\ ensureInitialized(i, [IdleCall EXCEPT !.kind = "createMessage",
                                             !.phase = "chat", !.input = x])
    /\ UNCHANGED <<endpoint, token, initialized, budget, app>>

\* completePrompt(prompt) up to the await of line 157.
completePrompt(i, p) ==
    /\ CanStart(i)
    /\ ensureInitialized(i, [IdleCall EXCEPT !.kind = "completePrompt",
                                             !.phase = "complete",
                                             !.prompt = p, !.cpStarted = 1])
    /\ UNCHANGED <<endpoint, token, initialized, budget, app>>

\* ensureInitialized() after `await this.initPromise`: lines 40-44.
ResumeInit(i) ==
    /\ NoOutcomePending
    /\ calls[i].pc = "awaitInit"
    /\ IF calls[i].awaited.state = "resolved"
       THEN /\ initialized' = TRUE
            /\ calls' = [calls EXCEPT ![i].pc = "afterEnsure",
                                      ![i].ensureErr = FALSE]
            /\ UNCHANGED initPromise
       ELSE /\ initPromise' = AfterRejected(initPromise)
            /\ calls' = [calls EXCEPT ![i].pc = "afterEnsure",
                                      ![i].ensureErr = TRUE,
                                      ![i].error = "Tabby endpoint is not configured"]
            /\ UNCHANGED initialized
    /\ UNCHANGED <<endpoint, token, client, initRuns, constructed, budget, app>>

\* The messages of the request call i sends in its current phase.
RequestMessages(c) ==
    IF c.phase = "chat" THEN OpenAiMessages(c.input)
    ELSE << [role |-> RoleUser, content |-> c.prompt] >>

\* After `await this.ensureInitialized()`: the client check and
\* this.client.chat.completions.create(...), lines 70-89 and 159-169.
AfterEnsure(i) ==
    /\ NoOutcomePending
    /\ calls[i].pc = "afterEnsure"
    /\ IF calls[i].ensureErr
       THEN calls' = [calls EXCEPT ![i].pc = "raised"]
       ELSE IF client = NoClient
       THEN calls' = [calls EXCEPT ![i].pc = "raised",
                                   ![i].error = "OpenAI client is not initialized"]
       ELSE calls' = [calls EXCEPT
                ![i].pc = "awaitCreate",
                ![i].reqs = Append(@, [client |-> client.id,
                                       baseURL |-> client.baseURL,
                                       messages |-> RequestMessages(calls[i])])]
    /\ UNCHANGED <<endpoint, token, client, initialized, initPromise, initRuns,
                   constructed, budget, app>>

\* An error of the request or of the stream reaches call i: the catch of
\* line 109 (the fallback) in the chat phase, the catch of line 176 (and then
\* of line 131) inside completePrompt.
Fail(i) ==
    IF calls[i].phase = "chat"
    THEN ensureInitialized(i,
            [calls[i] EXCEPT !.phase = "complete",
                             !.prompt = RenderPrompt(OpenAiMessages(calls[i].input)),
                             !.streamErr = TRUE,
                             !.yieldedAtErr = Len(calls[i].yielded),
                             !.cpCalls = @ + 1,
                             !.cpStarted = @ + 1])
    ELSE /\ calls' = [calls EXCEPT ![i].pc = "raised",
                                   ![i].error = "completion failed"]
         /\ UNCHANGED <<client, initPromise, initRuns, constructed>>

\* The service accepts the request: create(...) resolves with a stream.
RequestAccepted(i) ==
    /\ MayStream(i)
    /\ calls[i].pc = "awaitCreate"
    /\ calls' = [calls EXCEPT ![i].pc = "streaming"]
    /\ UNCHANGED <<endpoint, token, client, initialized, initPromise, initRuns,
                   constructed, budget, app>>

\* The request fails: create(...) rejects.
RequestFails(i) ==
    /\ NoOutcomePending
    /\ NoMicrotaskPending
    /\ calls[i].pc = "awaitCreate"
    /\ Fail(i)
    /\ UNCHANGED <<endpoint, token, initialized, budget, app>>

\* The stream delivers a chunk with content d: the loop bodies of lines
\* 92-98 and 171-173.
StreamChunk(i, d) ==
    /\ MayStream(i)
    /\ calls[i].pc = "streaming"
    /\ budget > 0
    /\ budget' = budget - 1
    /\ IF calls[i].phase = "chat"
       THEN calls' = [calls EXCEPT
                ![i].received = Append(@, d),
                ![i].fullText = IF YieldsText(d) THEN @ \o d ELSE @,
                ![i].yielded = IF YieldsText(d) THEN Append(@, TextChunk(d)) ELSE @]
       ELSE calls' = [calls EXCEPT ![i].cpChunks = Append(@, d)]
    /\ UNCHANGED <<endpoint, token, client, initialized, initPromise, initRuns,
                   constructed, app>>

\* The stream ends: lines 100-108 in the chat phase, lines 174-175 and then
\* line 114 inside completePrompt.
StreamEnds(i) ==
    /\ MayStream(i)
    /\ calls[i].pc = "streaming"
    /\ LET c == calls[i]
           result == Concat(c.cpChunks)
       IN IF c.phase = "chat"
          THEN calls' = [calls EXCEPT
                   ![i].pc = "done",
                   ![i].yielded = Append(@, StreamUsage(OpenAiMessages(c.input),
                                                        c.fullText))]
          ELSE IF c.kind = "completePrompt"
          THEN calls' = [calls EXCEPT ![i].pc = "done", ![i].result = result]
          ELSE calls' = [calls EXCEPT ![i].pc = "yielding",
                                      ![i].result = result,
                                      ![i].pending = FallbackChunks(result)]
    /\ UNCHANGED <<endpoint, token, client, initialized, initPromise, initRuns,
                   constructed, budget, app>>

\* The stream fails while it is read.
StreamFails(i) ==
    /\ NoOutcomePending
    /\ NoMicrotaskPending
    /\ calls[i].pc = "streaming"
    /\ Fail(i)
    /\ UNCHANGED <<endpoint, token, initialized, budget, app>>

\* The fallback yields its next chunk: lines 115-129.
FallbackYield(i) ==
    /\ MayStream(i)
    /\ calls[i].pc = "yielding"
    /\ LET c == calls[i]
       IN IF c.pending # <<>>
          THEN calls' = [calls EXCEPT
                   ![i].yielded = Append(@, TextChunk(Head(c.pending))),
                   ![i].pending = Tail(@)]
          ELSE calls' = [calls EXCEPT
                   ![i].pc = "done",
                   ![i].yielded = Append(@, FallbackUsage(OpenAiMessages(c.input),
                                                          c.result))]
    /\ UNCHANGED <<endpoint, token, client, initialized, initPromise, initRuns,
                   constructed, budget, app>>

\* The caller has the outcome of call i (the generator is done or has thrown,
\* the promise is settled) and drops it.
Collect(i) ==
    /\ calls[i].pc \in {"done", "raised"}
    /\ calls' = [calls EXCEPT ![i] = [IdleCall EXCEPT !.pc = "collected"]]
    /\ UNCHANGED <<endpoint, token, client, initialized, initPromise, initRuns,
                   constructed, budget, app>>

Next ==
    \/ \E i \in Calls, x \in Inputs : createMessage(i, x)
    \/ \E i \in Calls, p \in Prompts : completePrompt(i, p)
    \/ \E i \in Calls : ResumeInit(i)
    \/ \E i \in Calls : AfterEnsure(i)
    \/ \E i \in Calls : RequestAccepted(i)
    \/ \E i \in Calls : RequestFails(i)
    \/ \E i \in Calls, d \in Deltas : StreamChunk(i, d)
    \/ \E i \in Calls : StreamEnds(i)
    \/ \E i \in Calls : StreamFails(i)
    \/ \E i \in Calls : FallbackYield(i)
    \/ \E i \in Calls : Collect(i)

Spec == Init /\ [][Next]_vars

(***************************************************************************)
(* The functions beside the handler, and the second revision's             *)
(* constructor.  app records the last application: the function, its       *)
(* input (arguments and the environment it read) and its outcome.          *)
(***************************************************************************)
Slash == "/"

\* options.tabbyBaseUrl given to the second revision's constructor and to
\* getTabbyModels.
BaseUrls == { <<>>, <<"h">>, <<"h", "/">>, <<"h", "/", "/">> }

\* const normalizedBaseUrl = url.endsWith("/") ? url.slice(0, -1) : url
normalizedBaseUrl(url) == IF EndsWith(url, Slash) THEN DropLast(url) ELSE url

\* The options the second revision's constructor hands to OpenAiHandler.
TabbyHandlerOptions(o) ==
    [openAiApiKey |-> o.tabbyApiKey,
     openAiModelId |-> o.tabbyModelId,
     openAiBaseUrl |-> normalizedBaseUrl(o.tabbyBaseUrl) \o SlashV1,
     openAiStreamingEnabled |-> TRUE,
     includeMaxTokens |-> FALSE]

\* new TabbyHandler(options), second revision.
TabbyHandler(o) ==
    /\ app' = [op |-> "TabbyHandler", in |-> o, out |-> TabbyHandlerOptions(o)]
    /\ UNCHANGED handlerVars

\* What vscode.extensions.getExtension(TABBY_EXTENSION_ID) and the `tabby`
\* settings hold when the configuration is read.
TokenFunctions == {"canGetToken", "tryReadAuthenticationToken"}
Apis ==
    {[defined |-> FALSE, fns |-> {}]}
    \cup {[defined |-> TRUE, fns |-> f] : f \in SUBSET TokenFunctions}
\* The token function resolves to an object with a token, to an object
\* without one, to null, or it rejects.
TokenOutcomes == {"token", "noToken", "null", "rejects"}
Environments ==
    [endpoint : {<<>>, <<"h">>}, installed : BOOLEAN, isActive : BOOLEAN,
     activateThrows : BOOLEAN, api : Apis, tokenOutcome : TokenOutcomes]

ReturnedConfig(endpointValue, hasKey, key, log) ==
    [raised |-> FALSE,
     config |-> [endpoint |-> endpointValue, hasApiKey |-> hasKey, apiKey |-> key],
     log |-> log]
RaisedConfig(log) ==
    [raised |-> TRUE,
     config |-> [endpoint |-> <<>>, hasApiKey |-> FALSE, apiKey |-> <<>>],
     log |-> log]

\* Activates without the isActive test.
ActivatesAlways(env) == TRUE

\* if (tabbyExtension.isActive) exports else activate()
Activates(env) == ~env.isActive

\* tabbyApi && typeof tabbyApi[fn] === "function"
ExposesToken(api, fn) == api.defined /\ fn \in api.fns

\* The body shared by initTabbyConfig (fn = canGetToken) and
\* fetchLatestTabbyConfig (fn = tryReadAuthenticationToken).
ReadTabbyConfig(env, fn) ==
    IF ~env.installed THEN ReturnedConfig(env.endpoint, FALSE, <<>>, <<>>)
    ELSE LET log1 == IF Activates(env) THEN <<"activate">> ELSE <<"exports">>
         IN IF Activates(env) /\ env.activateThrows THEN RaisedConfig(log1)
            ELSE IF ExposesToken(env.api, fn)
            THEN LET log2 == Append(log1, fn)
                 IN CASE env.tokenOutcome = "token" ->
                            ReturnedConfig(env.endpoint, TRUE, <<"t">>, log2)
                      [] env.tokenOutcome = "noToken" ->
                            ReturnedConfig(env.endpoint, TRUE, <<>>, log2)
                      [] OTHER -> RaisedConfig(log2)
            ELSE ReturnedConfig(env.endpoint, FALSE, <<>>, log1)

initTabbyConfig(env) ==
    /\ app' = [op |-> "initTabbyConfig", in |-> env,
               out |-> ReadTabbyConfig(env, "canGetToken")]
    /\ UNCHANGED handlerVars

fetchLatestTabbyConfig(env) ==
    /\ app' = [op |-> "fetchLatestTabbyConfig", in |-> env,
               out |-> ReadTabbyConfig(env, "tryReadAuthenticationToken")]
    /\ UNCHANGED handlerVars

\* The arguments of getTabbyModels: an absent argument is [given |-> FALSE].
Absent == [given |-> FALSE, v |-> <<>>]
Given(s) == [given |-> TRUE, v |-> s]
LocalHost ==
    <<"h", "t", "t", "p", ":", "/", "/", "l", "o", "c", "a", "l", "h", "o",
      "s", "t", ":", "8", "0", "8", "0">>
ModelsPath == <<"/", "v", "1", "b", "e", "t", "a", "/", "m", "o", "d", "e", "l", "s">>

\* The values found under `chat` of the response body.
ChatValues ==
    { [t |-> "absent", v |-> <<>>], [t |-> "string", v |-> <<>>],
      [t |-> "string", v |-> <<"x">>], [t |-> "array", v |-> <<>>],
      [t |-> "array", v |-> <<"m1">>], [t |-> "array", v |-> <<"m1", "m2">>] }
\* The response body: not JSON, the JSON null, or an object.
Bodies ==
    { [json |-> "invalid", chat |-> [t |-> "absent", v |-> <<>>]],
      [json |-> "null", chat |-> [t |-> "absent", v |-> <<>>]] }
    \cup { [json |-> "object", chat |-> c] : c \in ChatValues }
\* What fetch does: it rejects, or it resolves with a response.
Fetches ==
    { [fails |-> TRUE, ok |-> FALSE,
       body |-> [json |-> "invalid", chat |-> [t |-> "absent", v |-> <<>>]]] }
    \cup { [fails |-> FALSE, ok |-> k, body |-> b] : k \in BOOLEAN, b \in Bodies }
ModelArgs ==
    [tabbyBaseUrl : {Absent} \cup {Given(u) : u \in BaseUrls},
     tabbyApiKey : {Absent, Given(<<"k">>)},
     fetch : Fetches]

Returned(value, urls) == [raised |-> FALSE, value |-> value, requests |-> urls]
Raised(urls) == [raised |-> TRUE, value |-> [t |-> "absent", v |-> <<>>], requests |-> urls]
EmptyList == [t |-> "array", v |-> <<>>]

\* tabbyBaseUrl: string = "http://localhost:8080"
BaseUrlArg(a) == IF a.tabbyBaseUrl.given THEN a.tabbyBaseUrl.v ELSE LocalHost

\* A JavaScript value under `chat` is truthy.
Truthy(c) == c.t = "array" \/ (c.t = "string" /\ c.v # <<>>)

\* getTabbyModels, first revision (lines 216-232).
ModelsFirst(a) ==
    LET url == BaseUrlArg(a)
        req == << url \o ModelsPath >>
    IN IF url = <<>> \/ ~a.tabbyApiKey.given THEN Returned(EmptyList, <<>>)
       ELSE IF a.fetch.fails THEN Raised(req)
       ELSE IF a.fetch.body.json = "invalid" THEN Raised(req)
       ELSE IF a.fetch.body.json = "null" THEN Raised(req)
       ELSE IF Truthy(a.fetch.body.chat) THEN Returned(a.fetch.body.chat, req)
       ELSE Returned(EmptyList, req)

\* getTabbyModels, second revision (lines 294-332).
ModelsSecond(a) ==
    LET url == BaseUrlArg(a)
        req == << normalizedBaseUrl(url) \o ModelsPath >>
    IN IF url = <<>> THEN Returned(EmptyList, <<>>)
       ELSE IF a.fetch.fails THEN Returned(EmptyList, req)
       ELSE IF ~a.fetch.ok THEN Returned(EmptyList, req)
       ELSE IF a.fetch.body.json = "invalid" THEN Returned(EmptyList, req)
       ELSE IF a.fetch.body.json = "object" /\ Truthy(a.fetch.body.chat)
               /\ a.fetch.body.chat.t = "array"
       THEN Returned(a.fetch.body.chat, req)
       ELSE Returned(EmptyList, req)

getTabbyModelsFirst(a) ==
    /\ app' = [op |-> "getTabbyModels", rev |-> 1, in |-> a, out |-> ModelsFirst(a)]
    /\ UNCHANGED handlerVars

getTabbyModels(a) ==
    /\ app' = [op |-> "getTabbyModels", rev |-> 2, in |-> a, out |-> ModelsSecond(a)]
    /\ UNCHANGED handlerVars

HandlerOptions ==
    [tabbyBaseUrl : BaseUrls, tabbyApiKey : {<<>>, <<"k">>},
     tabbyModelId : {<<"m">>}]

InitFunctions ==
    /\ endpoint = <<>>
    /\ token = <<>>
    /\ client = NoClient
    /\ initialized = FALSE
    /\ initPromise = NoPromise
    /\ initRuns = 0
    /\ constructed = 0
    /\ calls = [i \in Calls |-> IdleCall]
    /\ budget = MaxDeltas
    /\ app = [op |-> "none"]

NextFunctions ==
    \/ \E o \in HandlerOptions : TabbyHandler(o)
    \/ \E env \in Environments : initTabbyConfig(env)
    \/ \E env \in Environments : fetchLatestTabbyConfig(env)
    \/ \E a \in ModelArgs : getTabbyModelsFirst(a)
    \/ \E a \in ModelArgs : getTabbyModels(a)

SpecFunctions == InitFunctions /\ [][NextFunctions]_vars

(***************************************************************************)
(* Properties.                                                             *)
(***************************************************************************)
IsText(ch) == ch.type = "text"
IsUsage(ch) == ch.type = "usage"
NonEmpty(d) == d # <<>>
IsCreateMessage(c) == c.kind = "createMessage"

\* The texts of the text chunks of a sequence of chunks, in order.
TextsOf(ys) ==
    LET ts == SelectSeq(ys, IsText) IN [k \in 1..Len(ts) |-> ts[k].text]

\* The least k with 4k >= n.
CeilQuarter(n) == CHOOSE k \in 0..n : 4 * k >= n /\ 4 * k < n + 4

RECURSIVE LinesAfter(_)
LinesAfter(ms) ==
    IF ms = <<>> THEN <<>>
    ELSE <<"\n">> \o Head(ms).role \o <<":", " ">> \o Head(ms).content
         \o LinesAfter(Tail(ms))

\* "system: <system prompt>" and one "role: content" line per message.
ExpectedPrompt(x) ==
    <<"s", "y", "s", "t", "e", "m", ":", " ">> \o x.sys \o LinesAfter(x.msgs)

RECURSIVE ContentLength(_)
ContentLength(ms) ==
    IF ms = <<>> THEN 0 ELSE 1 + Len(Head(ms).content) + ContentLength(Tail(ms))

\* The length of the system prompt and the contents joined by single spaces.
ExpectedInputLength(x) == Len(x.sys) + ContentLength(x.msgs)

NotWhitespace(ch) == ch \notin Whitespace
StripWhitespace(s) == SelectSeq(s, NotWhitespace)

\* C1: while the streaming chat completion of a createMessage call has not
\* failed, the text chunks the call has yielded are exactly the non-empty
\* deltas it has received, one chunk per delta and in the order received, so
\* that the yielded text is the concatenation of the received deltas.
C1_StreamedTextIsDeltas ==
    \A i \in Calls :
        LET c == calls[i]
        IN (IsCreateMessage(c) /\ ~c.streamErr) =>
              /\ TextsOf(c.yielded) = SelectSeq(c.received, NonEmpty)
              /\ Concat(TextsOf(c.yielded)) = Concat(c.received)

\* A createMessage call finished on the streaming path after two different
\* non-empty deltas.
C1_Witness ==
    \E i \in Calls :
        /\ IsCreateMessage(calls[i]) /\ calls[i].pc = "done" /\ ~calls[i].streamErr
        /\ Len(calls[i].received) = 2
        /\ calls[i].received[1] # <<>> /\ calls[i].received[2] # <<>>
        /\ calls[i].received[1] # calls[i].received[2]

C3_UsageCountsYieldedText ==
    \A i \in Calls :
        LET c == calls[i]
            u == c.yielded[Len(c.yielded)]
        IN (IsCreateMessage(c) /\ c.pc = "done") =>
              /\ u.outputTokens = CeilQuarter(Len(Concat(TextsOf(c.yielded))))
              /\ u.inputTokens = CeilQuarter(ExpectedInputLength(c.input))

\* C3 as amended: inputTokens = ceiling(L_in / 4) on both paths; on the
\* streaming path outputTokens = ceiling(L_out / 4) for the text the call
\* yielded; on the fallback path outputTokens = ceiling(L / 4) for L the
\* length of the result of completePrompt (the concatenation of the deltas it
\* received), whatever the call yielded.
C3_UsageEstimates ==
    \A i \in Calls :
        LET c == calls[i]
            u == c.yielded[Len(c.yielded)]
        IN (IsCreateMessage(c) /\ c.pc = "done") =>
              /\ IsUsage(u)
              /\ u.inputTokens = CeilQuarter(ExpectedInputLength(c.input))
              /\ ~c.streamErr =>
                    u.outputTokens = CeilQuarter(Len(Concat(TextsOf(c.yielded))))
              /\ c.streamErr =>
                    u.outputTokens = CeilQuarter(Len(Concat(c.cpChunks)))

\* A createMessage call finished on the fallback path whose usage differs from
\* the estimate of the text it yielded.
C3_Witness ==
    \E i \in Calls :
        LET c == calls[i]
        IN /\ IsCreateMessage(c) /\ c.pc = "done" /\ c.streamErr
           /\ c.input.msgs # <<>>
           /\ c.yielded[Len(c.yielded)].outputTokens
                 # CeilQuarter(Len(Concat(TextsOf(c.yielded))))

C4_InitializedImpliesClient ==
    initialized => (client # NoClient /\ endpoint # <<>>)

\* C4: once initialized is true it stays true, and in every reachable state
\* initialized implies that the client is set and the endpoint is not empty.
C4_InitializedIsStable ==
    /\ []C4_InitializedImpliesClient
    /\ [][initialized => initialized']_vars

\* The handler is initialized, a call has finished and another call has sent
\* a request.
C4_Witness ==
    /\ initialized
    /\ \E i, j \in Calls :
          /\ calls[i].pc = "collected"
          /\ calls[j].reqs # <<>>

\* C5 as stated: the base URL of the client is the configured URL without a
\* trailing "/" followed by "/v1", and it never contains "//v1"; for the
\* first revision's client and for the options of the second revision.
C5_BaseUrlIsNormalized ==
    LET Normal(url, base) ==
            /\ base = (IF EndsWith(url, Slash) THEN DropLast(url) ELSE url) \o SlashV1
            /\ ~Contains(base, <<"/", "/", "v", "1">>)
    IN /\ client # NoClient => Normal(endpoint, client.baseURL)
       /\ app.op = "TabbyHandler" => Normal(app.in.tabbyBaseUrl, app.out.openAiBaseUrl)

\* C7: a createMessage call that finished has yielded exactly one usage chunk,
\* as its last chunk, also after a fallback; a call that has not finished has
\* yielded none, so no text chunk follows a usage chunk.
C7_OneUsageChunkLast ==
    \A i \in Calls :
        LET c == calls[i]
        IN IsCreateMessage(c) =>
              /\ \A k \in 1..Len(c.yielded) :
                    IsUsage(c.yielded[k]) => (k = Len(c.yielded) /\ c.pc = "done")
              /\ c.pc = "done" =>
                    (c.yielded # <<>> /\ IsUsage(c.yielded[Len(c.yielded)]))

\* A createMessage call that yielded a text chunk, fell back, yielded a text
\* chunk of the fallback and finished.
C7_Witness ==
    \E i \in Calls :
        /\ IsCreateMessage(calls[i]) /\ calls[i].pc = "done" /\ calls[i].streamErr
        /\ calls[i].yieldedAtErr >= 1
        /\ Len(calls[i].yielded) = calls[i].yieldedAtErr + 2

C8_NothingSent ==
    endpoint = <<>> =>
        /\ ~initialized /\ client = NoClient /\ constructed = 0
        /\ \A i \in Calls :
              LET c == calls[i]
              IN /\ c.pc \in {"idle", "awaitInit", "afterEnsure", "raised", "collected"}
                 /\ c.reqs = <<>> /\ c.yielded = <<>>
                 /\ c.cpCalls = 0 /\ ~c.streamErr
                 /\ c.pc = "afterEnsure" => c.ensureErr
                 /\ c.pc = "raised" => c.error = "Tabby endpoint is not configured"

C8_ClearsAndRetries ==
    endpoint = <<>> =>
        \A i \in Calls :
            /\ (calls[i].pc = "awaitInit" /\ calls'[i].pc # "awaitInit") =>
                  (initPromise' = NoPromise /\ calls'[i].ensureErr)
            /\ (calls[i].pc = "idle" /\ calls'[i].pc # "idle"
                    /\ initPromise = NoPromise) =>
                  (initRuns' = initRuns + 1 /\ initPromise'.state = "rejected")

\* C8: with an empty endpoint no call sends a request, yields a chunk or takes
\* the fallback, a call can end only by raising "Tabby endpoint is not
\* configured", the handler stays not initialized without a client, the call
\* that sees the rejection clears the stored init promise, and a call that
\* finds no stored promise runs initialize again.
C8_EmptyEndpointRaises ==
    /\ []C8_NothingSent
    /\ [][C8_ClearsAndRetries]_vars

\* With an empty endpoint one call has raised and the next one, which ran
\* initialize again, has raised too.
C8_Witness ==
    /\ endpoint = <<>> /\ NumCalls >= 2
    /\ calls[1].pc = "collected"
    /\ calls[2].pc = "raised" /\ calls[2].kind = "createMessage"
    /\ initRuns = 2 /\ initPromise = NoPromise

C9_OneClient ==
    endpoint # <<>> =>
        /\ constructed <= 1 /\ initRuns <= 1
        /\ client # NoClient => client.id = 1
        /\ \A i \in Calls : \A k \in 1..Len(calls[i].reqs) :
              /\ calls[i].reqs[k].client = 1
              /\ calls[i].reqs[k].baseURL = client.baseURL

C9_SharedInitPromise ==
    /\ initRuns' # initRuns =>
          (initPromise = NoPromise /\ ~initialized /\ initRuns' = initRuns + 1)
    /\ \A i \in Calls :
          (calls[i].pc # "awaitInit" /\ calls'[i].pc = "awaitInit") =>
              /\ calls'[i].awaited = initPromise'
              /\ initPromise # NoPromise =>
                    (initPromise' = initPromise /\ initRuns' = initRuns)

\* C9: initialize runs only when no init promise is stored, a call that
\* arrives while one is stored waits on that same promise, and with a
\* non-empty endpoint the client is constructed at most once and every
\* request of every call is sent with that client.
C9_SingleInitialization ==
    /\ []C9_OneClient
    /\ [][C9_SharedInitPromise]_vars

\* Two calls waited on the same init promise and both have sent a request.
C9_Witness ==
    \E i, j \in Calls :
        /\ i # j
        /\ calls[i].awaited # NoPromise
        /\ calls[i].awaited = calls[j].awaited
        /\ calls[i].reqs # <<>> /\ calls[j].reqs # <<>>

TokenFunctionOf(op) ==
    IF op = "initTabbyConfig" THEN "canGetToken" ELSE "tryReadAuthenticationToken"
IsActivate(e) == e = "activate"

\* C6: a returned config carries the endpoint of the settings; it carries an
\* apiKey iff the extension is installed and its API exposes the token
\* function; an inactive extension is activated exactly once, before anything
\* else, and an active one never; without the extension the endpoint alone is
\* returned and nothing is activated or called.
C6_TokenIsOptional ==
    app.op \in {"initTabbyConfig", "fetchLatestTabbyConfig"} =>
        LET env == app.in
            out == app.out
            fn == TokenFunctionOf(app.op)
        IN /\ ~out.raised => out.config.endpoint = env.endpoint
           /\ ~out.raised =>
                 (out.config.hasApiKey <=>
                     (env.installed /\ env.api.defined /\ fn \in env.api.fns))
           /\ Len(SelectSeq(out.log, IsActivate))
                 = (IF env.installed /\ ~env.isActive THEN 1 ELSE 0)
           /\ \A k \in 1..Len(out.log) : IsActivate(out.log[k]) => k = 1
           /\ \A k \in 1..Len(out.log) : out.log[k] \in TokenFunctions => out.log[k] = fn
           /\ ~env.installed =>
                 (~out.raised /\ out.log = <<>> /\ ~out.config.hasApiKey)

\* An installed, active extension whose API exposes the token function gave
\* its token to fetchLatestTabbyConfig.
C6_Witness ==
    /\ app.op = "fetchLatestTabbyConfig"
    /\ app.in.installed /\ app.in.isActive
    /\ ~app.out.raised /\ app.out.config.hasApiKey
    /\ app.out.config.apiKey = <<"t">>
    /\ app.out.log = <<"exports", "tryReadAuthenticationToken">>

\* C10 as stated: getTabbyModels never raises; it returns the empty list,
\* without a request, for an empty base URL, the empty list when the request
\* fails, the status is not OK, the body is not JSON or holds no array under
\* `chat`, and the list under `chat` otherwise.
C10_ModelsNeverRaise ==
    app.op = "getTabbyModels" =>
        LET a == app.in
            out == app.out
            noList == \/ a.fetch.fails \/ ~a.fetch.ok
                      \/ a.fetch.body.json # "object"
                      \/ a.fetch.body.chat.t # "array"
        IN /\ ~out.raised
           /\ (a.tabbyBaseUrl.given /\ a.tabbyBaseUrl.v = <<>>) =>
                 (out.value = EmptyList /\ out.requests = <<>>)
           /\ noList => out.value = EmptyList
           /\ (~noList /\ ~(a.tabbyBaseUrl.given /\ a.tabbyBaseUrl.v = <<>>)) =>
                 out.value = a.fetch.body.chat

====
